---- MODULE Spec2Model ----
(***************************************************************************)
(* mopidy_qobuz/cache.py: FileCacheStorage (a directory of JSON metadata   *)
(* records with age and size eviction) and TrackUrlCache (a retried        *)
(* download wrapped in a worker thread that the caller joins with a        *)
(* timeout).                                                               *)
(*                                                                         *)
(* A file is the sequence of its tokens; its size is the number of tokens. *)
(* json.dump / json.load are modelled as a serialiser and a parser over    *)
(* these tokens, so a truncated or overlaid file fails to parse.  Time is  *)
(* counted in days.                                                        *)
(***************************************************************************)
EXTENDS Integers, Sequences, FiniteSets, TLC

\* ---------------------------------------------------------------- bounds
MaxTime == 2
MaxCalls == 2
MaxRetries == 2
MaxThreads == 2
MaxOps == 2

\* --------------------------------------------------------- configuration
\* FileCacheStorage(max_age_days=...)
max_age_days == 1

\* FileCacheStorage(max_total_size_bytes=...): a limit below the size of one
\* record of a download, and one that holds a payload and its record.
SizeLimits == {7, 24}

Keys == {"k1", "k2"}

\* The track ids cache_track_url is called with.
TrackIds == {"k1"}

\* The dictionaries a caller hands to FileCacheStorage.store.
Values == { ("url" :> "u"), ("url" :> "u") @@ ("artist" :> "a") }

\* The lengths of the bodies the transport can answer with.
ContentSizes == {2, 10}

\* ------------------------------------------------------------------ paths
\* A naming that gives every key the same file.
SharedPath(key) == "k1.cache"

\* cache.py:31-33: md5(key) + ".cache", one file name per key
_get_cache_path(key) == key \o ".cache"

\* cache.py:205-206, the payload path of _cache_track_url
_track_path(key) == key \o ".track"

Paths == {_get_cache_path(k) : k \in Keys} \cup {_track_path(k) : k \in Keys}

\* ------------------------------------------------------------------- json
FieldOrder == <<"track_id", "local_path", "size_bytes", "url", "artist", "stored_at">>
IntFields == {"size_bytes"}

DigitChar == <<"0", "1", "2", "3", "4", "5", "6", "7", "8", "9">>

\* datetime.isoformat() of a day
isoformat(t) == "T" \o DigitChar[t + 1]

IsoTimes == 0 .. 9

\* The strings that occur as names or values in a record.
Strings ==
    {FieldOrder[i] : i \in 1 .. Len(FieldOrder)} \cup Keys \cup Paths
    \cup {"u", "a"} \cup {isoformat(t) : t \in IsoTimes}

Str(s) == "'" \o s
IsStr(tok) == \E s \in Strings : Str(s) = tok
Unquote(tok) == CHOOSE s \in Strings : Str(s) = tok
IsDigit(tok) == \E d \in 0 .. 9 : DigitChar[d + 1] = tok
DigitVal(tok) == CHOOSE d \in 0 .. 9 : DigitChar[d + 1] = tok

RECURSIVE Digits(_)
Digits(n) == IF n < 10 THEN <<DigitChar[n + 1]>>
             ELSE Digits(n \div 10) \o <<DigitChar[(n % 10) + 1]>>

EmptyEntry == [f \in {} |-> 0]
Put(e, name, val) == [f \in DOMAIN e \cup {name} |-> IF f = name THEN val ELSE e[f]]

RECURSIVE DumpFrom(_, _)
DumpFrom(e, i) ==
    IF i > Len(FieldOrder) THEN <<>>
    ELSE LET f == FieldOrder[i] IN
         (IF f \in DOMAIN e
            THEN <<Str(f)>> \o (IF f \in IntFields THEN Digits(e[f]) ELSE <<Str(e[f])>>)
            ELSE <<>>) \o DumpFrom(e, i + 1)

\* json.dump(value, f): the text written for a dictionary
json_dump(e) == <<"{">> \o DumpFrom(e, 1) \o <<"}">>

Bad == [ok |-> FALSE, entry |-> EmptyEntry]

\* The end of the run of digits that starts at i.
RECURSIVE DigitsEnd(_, _)
DigitsEnd(seq, i) ==
    IF i + 1 <= Len(seq) /\ IsDigit(seq[i + 1]) THEN DigitsEnd(seq, i + 1) ELSE i

RECURSIVE DigitsValue(_, _, _)
DigitsValue(seq, i, j) ==
    IF j < i THEN 0 ELSE 10 * DigitsValue(seq, i, j - 1) + DigitVal(seq[j])

RECURSIVE ParseMembers(_, _, _)
ParseMembers(seq, i, acc) ==
    IF i > Len(seq) THEN Bad
    ELSE IF seq[i] = "}"
      THEN (IF i = Len(seq) THEN [ok |-> TRUE, entry |-> acc] ELSE Bad)
    ELSE IF ~IsStr(seq[i]) \/ i + 1 > Len(seq) THEN Bad
    ELSE IF IsStr(seq[i + 1])
      THEN ParseMembers(seq, i + 2, Put(acc, Unquote(seq[i]), Unquote(seq[i + 1])))
    ELSE IF IsDigit(seq[i + 1])
      THEN LET j == DigitsEnd(seq, i + 1) IN
           ParseMembers(seq, j + 1, Put(acc, Unquote(seq[i]), DigitsValue(seq, i + 1, j)))
    ELSE Bad

\* json.load(f): the dictionary, or a failure (JSONDecodeError)
json_load(seq) ==
    IF Len(seq) = 0 \/ seq[1] # "{" THEN Bad ELSE ParseMembers(seq, 2, EmptyEntry)

\* datetime.fromisoformat(entry.get("stored_at", "")): the day, or a failure
fromisoformat(e) ==
    IF "stored_at" \in DOMAIN e /\ (\E t \in IsoTimes : isoformat(t) = e["stored_at"])
      THEN [ok |-> TRUE, t |-> CHOOSE t \in IsoTimes : isoformat(t) = e["stored_at"]]
      ELSE [ok |-> FALSE, t |-> -1]

\* response.content of a given length
Content(n) == [i \in 1 .. n |-> "x"]

\* ------------------------------------------------------------------ state
VARIABLES
    files,        \* the cache directory: file name -> tokens of the file
    now,          \* datetime.now(), in days
    max_retries,  \* TrackUrlCache.max_retries
    max_total_size_bytes,  \* FileCacheStorage.max_total_size_bytes
    calls,        \* the cache_track_url calls issued so far, in order
    workers,      \* the threads cache_track_url has started
    rt,           \* the last store of the caller and the retrieve that followed it
    lastPass,     \* the run of _cleanup_oldest_files the last step made, if any
    lastStored,   \* size of the record the caller's last store call wrote
    wiped,        \* a delete or a clear has been issued
    ops,          \* storage operations the caller has made between its calls
    last,         \* the caller's last retrieve, delete, clear or failed store
    raised,       \* the exception that reached the caller, if one did
    built         \* TrackUrlCache.__init__ has run to its end

config == <<max_retries, max_total_size_bytes, built>>

vars == <<files, now, config, calls, workers, rt, lastPass, lastStored, wiped, ops,
          last, raised>>

CallIds == 1 .. MaxCalls
Roles == {"sync", "bg"}
WorkerIds == CallIds \X Roles

None == ""

IdleWorker ==
    [pc |-> "idle", key |-> None, attempt |-> 0, size |-> 0, fd |-> "none",
     stamp |-> 0, result |-> None, ngets |-> 0]

NoRt == [stage |-> "none", key |-> None, value |-> EmptyEntry, cleaned |-> FALSE,
         replaced |-> FALSE, found |-> FALSE, entry |-> EmptyEntry]

NoPass == [ran |-> FALSE, pre |-> EmptyEntry, at |-> 0, removed |-> <<>>]

NoLast == [op |-> "none", key |-> None, pre |-> EmptyEntry, at |-> 0,
           found |-> FALSE, failed |-> FALSE]

\* ------------------------------------------------------------ directory
Remove(fs, S) == [p \in DOMAIN fs \ S |-> fs[p]]

\* A write that does not truncate the file first.
WriteNoTruncate(fs, p, data) ==
    [q \in DOMAIN fs \cup {p} |->
        IF q # p THEN fs[q]
        ELSE IF p \in DOMAIN fs THEN data \o SubSeq(fs[p], Len(data) + 1, Len(fs[p]))
        ELSE data]

\* open(path, "w") followed by the write of data: the file holds data alone
WriteAll(fs, p, data) == [q \in DOMAIN fs \cup {p} |-> IF q = p THEN data ELSE fs[q]]

\* A write of data at offset 0 of a file that holds old.
Overlay(old, data) == data \o SubSeq(old, Len(data) + 1, Len(old))

\* os.remove of a file a thread holds open: the thread keeps writing to the
\* unlinked file, which no path names any more.
Orphan(ws, S) ==
    [w \in DOMAIN ws |->
        IF ws[w].fd = "open" /\ _get_cache_path(ws[w].key) \in S
          THEN [ws[w] EXCEPT !.fd = "orphan"] ELSE ws[w]]

RECURSIVE SumSizes(_, _)
SumSizes(fs, S) ==
    IF S = {} THEN 0
    ELSE LET p == CHOOSE q \in S : TRUE IN Len(fs[p]) + SumSizes(fs, S \ {p})

_get_total_cache_size(fs) == SumSizes(fs, DOMAIN fs)

\* The orders in which os.scandir may list the directory.
ScanOrders(fs) ==
    LET n == Cardinality(DOMAIN fs) IN
    {o \in [1 .. n -> DOMAIN fs] : \A i, j \in 1 .. n : o[i] = o[j] => i = j}

\* ------------------------------------------------------------- eviction
MinTime == -1

\* A classification that keeps unreadable files as live ones.
FileInfoLenient(fs, p, t) ==
    LET j == json_load(fs[p])
        s == fromisoformat(j.entry)
    IN  IF j.ok /\ s.ok
          THEN [path |-> p, size |-> Len(fs[p]), stored_at |-> s.t,
                is_expired |-> t - s.t > max_age_days]
          ELSE [path |-> p, size |-> Len(fs[p]), stored_at |-> MinTime,
                is_expired |-> FALSE]

\* One element of cache_files (cache.py:49-77).
FileInfo(fs, p, t) ==
    LET j == json_load(fs[p])
        s == fromisoformat(j.entry)
    IN  IF j.ok /\ s.ok
          THEN [path |-> p, size |-> Len(fs[p]), stored_at |-> s.t,
                is_expired |-> t - s.t > max_age_days]
          ELSE [path |-> p, size |-> Len(fs[p]), stored_at |-> MinTime,
                is_expired |-> TRUE]

\* A sort that puts the newest first.
RECURSIVE InsertSortedDescending(_, _)
InsertSortedDescending(sorted, x) ==
    IF sorted = <<>> THEN <<x>>
    ELSE IF sorted[Len(sorted)].stored_at >= x.stored_at THEN Append(sorted, x)
    ELSE Append(InsertSortedDescending(SubSeq(sorted, 1, Len(sorted) - 1), x),
                sorted[Len(sorted)])

\* list.sort(key=stored_at): stable, ascending
RECURSIVE InsertSorted(_, _)
InsertSorted(sorted, x) ==
    IF sorted = <<>> THEN <<x>>
    ELSE IF sorted[Len(sorted)].stored_at <= x.stored_at THEN Append(sorted, x)
    ELSE Append(InsertSorted(SubSeq(sorted, 1, Len(sorted) - 1), x), sorted[Len(sorted)])

RECURSIVE SortByStoredAt(_)
SortByStoredAt(seq) ==
    IF seq = <<>> THEN <<>>
    ELSE InsertSorted(SortByStoredAt(SubSeq(seq, 1, Len(seq) - 1)), seq[Len(seq)])

PathsOf(seq) == [i \in 1 .. Len(seq) |-> seq[i].path]
RangeOf(seq) == {seq[i] : i \in 1 .. Len(seq)}

\* cache.py:94-100: remove live files, oldest first, until within the limit
RECURSIVE RemoveLive(_, _, _)
RemoveLive(fs, live, i) ==
    IF i > Len(live) THEN [files |-> fs, removed |-> <<>>]
    ELSE LET fs2 == Remove(fs, {live[i].path}) IN
         IF _get_total_cache_size(fs2) <= max_total_size_bytes
           THEN [files |-> fs2, removed |-> <<live[i].path>>]
           ELSE LET rest == RemoveLive(fs2, live, i + 1) IN
                [files |-> rest.files, removed |-> <<live[i].path>> \o rest.removed]

\* FileCacheStorage._cleanup_oldest_files, with the directory listed in `order`
_cleanup_oldest_files(fs, order, t) ==
    LET cache_files == [i \in 1 .. Len(order) |-> FileInfo(fs, order[i], t)]
        expired_files == SortByStoredAt(SelectSeq(cache_files, LAMBDA f : f.is_expired))
        fs1 == Remove(fs, RangeOf(PathsOf(expired_files)))
        non_expired_files ==
            SortByStoredAt(SelectSeq(cache_files, LAMBDA f : ~f.is_expired))
        live == IF _get_total_cache_size(fs1) > max_total_size_bytes
                  THEN RemoveLive(fs1, non_expired_files, 1)
                  ELSE [files |-> fs1, removed |-> <<>>]
    IN  [files |-> live.files, removed |-> PathsOf(expired_files) \o live.removed]

\* The size check with its comparison turned around.
NeedsCleanupFlipped(fs, value) ==
    _get_total_cache_size(fs) + Len(json_dump(value)) < max_total_size_bytes

\* cache.py:104-105: whether store runs a cleanup pass before it writes
NeedsCleanup(fs, value) ==
    _get_total_cache_size(fs) + Len(json_dump(value)) > max_total_size_bytes

\* cache.py:104-106 of store: the directory after the size check
PassFor(fs, value, order, t) ==
    IF NeedsCleanup(fs, value)
      THEN LET c == _cleanup_oldest_files(fs, order, t) IN
           [ran |-> TRUE, files |-> c.files, removed |-> c.removed]
      ELSE [ran |-> FALSE, files |-> fs, removed |-> <<>>]

PassLog(p, fs, t) ==
    IF p.ran THEN [ran |-> TRUE, pre |-> fs, at |-> t, removed |-> p.removed]
    ELSE NoPass

\* cache.py:109: value["stored_at"] = datetime.now().isoformat()
Stamped(value, t) == Put(value, "stored_at", isoformat(t))

\* A retrieve that answers like the code but leaves an expired file in place.
retrieveKeepsFile(fs, key, t) ==
    LET p == _get_cache_path(key) IN
    IF p \notin DOMAIN fs THEN [found |-> FALSE, entry |-> EmptyEntry, files |-> fs]
    ELSE LET j == json_load(fs[p])
             s == fromisoformat(j.entry)
         IN  IF ~j.ok \/ ~s.ok \/ t - s.t > max_age_days
               THEN [found |-> FALSE, entry |-> EmptyEntry, files |-> fs]
             ELSE [found |-> TRUE, entry |-> j.entry, files |-> fs]

\* FileCacheStorage.retrieve: the result and the directory it leaves
retrieve(fs, key, t) ==
    LET p == _get_cache_path(key) IN
    IF p \notin DOMAIN fs THEN [found |-> FALSE, entry |-> EmptyEntry, files |-> fs]
    ELSE LET j == json_load(fs[p])
             s == fromisoformat(j.entry)
         IN  IF ~j.ok \/ ~s.ok
               THEN [found |-> FALSE, entry |-> EmptyEntry, files |-> fs]
             ELSE IF t - s.t > max_age_days
               THEN [found |-> FALSE, entry |-> EmptyEntry, files |-> Remove(fs, {p})]
             ELSE [found |-> TRUE, entry |-> j.entry, files |-> fs]

\* ---------------------------------------------------------------- Init
Start ==
    /\ files = EmptyEntry
    /\ now = 0
    /\ max_retries \in 0 .. MaxRetries
    /\ max_total_size_bytes \in SizeLimits
    /\ calls = <<>>
    /\ workers = [w \in WorkerIds |-> IdleWorker]
    /\ rt = NoRt
    /\ lastPass = NoPass
    /\ lastStored = 0
    /\ wiped = FALSE
    /\ ops = 0
    /\ last = NoLast
    /\ raised = None

\* The state once TrackUrlCache(storage_adapter=FileCacheStorage(...)) has
\* been constructed.
Init == Start /\ built = TRUE

\* The state before TrackUrlCache is constructed.
InitBuild == Start /\ built = FALSE

\* The names bound while the body of TrackUrlCache.__init__ runs: its
\* parameters (cache.py:171-176) and the names of the module (cache.py:1-15, 164).
InitNames ==
    {"self", "storage_adapter", "download_timeout", "max_retries",
     "datetime", "timedelta", "hashlib", "json", "logging", "os", "queue", "shutil",
     "threading", "Any", "Dict", "Optional", "requests", "logger",
     "FileCacheStorage", "TrackUrlCache"}

\* cache.py:185-189: storage_adapter or FileCacheStorage(max_total_size_bytes=
\* max_cache_size_bytes); the exception the body raises, None when it ends
TrackUrlCache__init__(storage_adapter) ==
    IF storage_adapter # None THEN None
    ELSE IF "max_cache_size_bytes" \in InitNames THEN None
    ELSE "NameError"

\* cache = TrackUrlCache(storage_adapter=...)
Construct(storage_adapter) ==
    /\ ~built /\ raised = None
    /\ LET exc == TrackUrlCache__init__(storage_adapter) IN
       /\ built' = (exc = None)
       /\ raised' = exc
    /\ UNCHANGED <<files, now, max_retries, max_total_size_bytes, calls, workers, rt,
                   lastPass, lastStored, wiped, last>>

\* The caller's thread is inside cache_track_url (it has not returned yet).
Waiting == calls # <<>> /\ calls[Len(calls)].state = "waiting"

SetOf(seq) == {seq[i] : i \in 1 .. Len(seq)}

\* Bookkeeping of the calls: whether the metadata file of a call's track was
\* removed since the call was issued (evicted), and whether it is still the file
\* that was there when the call returned (fresh).
Disturb(cs, removed, rewritten) ==
    [i \in DOMAIN cs |->
        LET p == _get_cache_path(cs[i].key) IN
        [cs[i] EXCEPT !.fresh = @ /\ p \notin (removed \cup rewritten),
                      !.evicted = @ \/ p \in removed]]

\* ------------------------------------------------------------ handlers
\* The exceptions that failing I/O and json.dump raise.
Faults == {"OSError", "TypeError"}

\* An except clause that catches I/O errors only.
ExceptOSError(exc) == exc = "OSError"

\* `except Exception` (cache.py:115, 139, 153, 160, 256, 295)
ExceptException(exc) == TRUE

\* `except requests.RequestException` (cache.py:236)
ExceptRequestException(exc) == exc = "RequestException"

\* `except queue.Empty` (cache.py:279)
ExceptQueueEmpty(exc) == exc = "Empty"

\* ------------------------------------------------- the caller's operations
\* FileCacheStorage.store(key, value)
Store(key, value) ==
    /\ ~Waiting
    /\ \E order \in ScanOrders(files) :
         LET p == PassFor(files, value, order, now)
             data == json_dump(Stamped(value, now))
         IN  /\ files' = WriteAll(p.files, _get_cache_path(key), data)
             /\ workers' = Orphan(workers, SetOf(p.removed))
             /\ calls' = Disturb(calls, SetOf(p.removed), {_get_cache_path(key)})
             /\ lastPass' = PassLog(p, files, now)
             /\ lastStored' = Len(data)
    /\ rt' = [NoRt EXCEPT !.stage = "stored", !.key = key, !.value = value,
                         !.cleaned = NeedsCleanup(files, value),
                         !.replaced = _get_cache_path(key) \in DOMAIN files]
    /\ last' = NoLast
    /\ UNCHANGED <<now, config, wiped, raised>>

\* TrackUrlCache.get_cached_track(track_id) = FileCacheStorage.retrieve(key)
Retrieve(key) ==
    /\ ~Waiting
    /\ LET r == retrieve(files, key, now) IN
       /\ files' = r.files
       /\ workers' = Orphan(workers, DOMAIN files \ DOMAIN r.files)
       /\ calls' = Disturb(calls, DOMAIN files \ DOMAIN r.files, {})
       /\ rt' = IF rt.stage = "stored" /\ rt.key = key
                  THEN [rt EXCEPT !.stage = "retrieved", !.found = r.found,
                                  !.entry = r.entry]
                  ELSE NoRt
       /\ last' = [NoLast EXCEPT !.op = "retrieve", !.key = key, !.pre = files,
                                 !.at = now, !.found = r.found]
    /\ lastPass' = NoPass
    /\ UNCHANGED <<now, config, lastStored, wiped, raised>>

\* FileCacheStorage.delete(key) = TrackUrlCache.delete_cached_track(track_id)
Delete(key) ==
    /\ ~Waiting
    /\ files' = Remove(files, {_get_cache_path(key)})
    /\ workers' = Orphan(workers, {_get_cache_path(key)})
    /\ calls' = Disturb(calls, {_get_cache_path(key)}, {})
    /\ rt' = NoRt
    /\ lastPass' = NoPass
    /\ wiped' = TRUE
    /\ last' = [NoLast EXCEPT !.op = "delete", !.key = key, !.pre = files, !.at = now]
    /\ UNCHANGED <<now, config, lastStored, raised>>

\* FileCacheStorage.clear() = TrackUrlCache.clear_cache(): rmtree, then makedirs
Clear ==
    /\ ~Waiting
    /\ files' = EmptyEntry
    /\ workers' = Orphan(workers, Paths)
    /\ calls' = Disturb(calls, Paths, {})
    /\ rt' = NoRt
    /\ lastPass' = NoPass
    /\ wiped' = TRUE
    /\ last' = [NoLast EXCEPT !.op = "clear"]
    /\ UNCHANGED <<now, config, lastStored, raised>>

\* What an exception raised inside a try block with `except Exception` leaves
\* for the caller: nothing when the clause catches it.
Swallow(exc) == IF ExceptException(exc) THEN raised ELSE exc

\* How much of a record json.dump has written when it raises: nothing, the
\* opening brace, or all but the closing brace.
PartialLengths(data) == {0, 1, Len(data) - 1}

\* FileCacheStorage.store(key, value) with an exception raised at `stage`:
\* by os.scandir in the size check (cache.py:104), by open (cache.py:110), or by
\* json.dump (cache.py:113) after it has written the first n tokens.
StoreFails(key, value, stage, exc) ==
    /\ ~Waiting
    /\ \E order \in ScanOrders(files) :
         LET p == IF stage = "scan"
                    THEN [ran |-> FALSE, files |-> files, removed |-> <<>>]
                    ELSE PassFor(files, value, order, now)
             data == json_dump(Stamped(value, now))
         IN  /\ \/ /\ stage \in {"scan", "open"}
                   /\ files' = p.files
                \/ /\ stage = "dump"
                   /\ \E n \in PartialLengths(data) :
                        files' = WriteAll(p.files, _get_cache_path(key), SubSeq(data, 1, n))
             /\ workers' = Orphan(workers, SetOf(p.removed))
             /\ calls' = Disturb(calls, SetOf(p.removed),
                                 IF stage = "dump" THEN {_get_cache_path(key)} ELSE {})
             /\ lastPass' = PassLog(p, files, now)
    /\ rt' = NoRt
    /\ last' = [NoLast EXCEPT !.op = "store", !.key = key, !.pre = files, !.at = now,
                              !.failed = TRUE]
    /\ raised' = Swallow(exc)
    /\ UNCHANGED <<now, config, lastStored, wiped>>

\* FileCacheStorage.retrieve(key) with open or os.remove raising
\* (cache.py:126-134): the except clause returns None
RetrieveFails(key, exc) ==
    /\ ~Waiting
    /\ _get_cache_path(key) \in DOMAIN files
    /\ rt' = NoRt
    /\ lastPass' = NoPass
    /\ last' = [NoLast EXCEPT !.op = "retrieve", !.key = key, !.pre = files, !.at = now,
                              !.failed = TRUE]
    /\ raised' = Swallow(exc)
    /\ UNCHANGED <<files, now, config, calls, workers, lastStored, wiped>>

\* FileCacheStorage.delete(key) with os.remove raising (cache.py:152)
DeleteFails(key, exc) ==
    /\ ~Waiting
    /\ _get_cache_path(key) \in DOMAIN files
    /\ rt' = NoRt
    /\ lastPass' = NoPass
    /\ wiped' = TRUE
    /\ last' = [NoLast EXCEPT !.op = "delete", !.key = key, !.pre = files, !.at = now,
                              !.failed = TRUE]
    /\ raised' = Swallow(exc)
    /\ UNCHANGED <<files, now, config, calls, workers, lastStored>>

\* FileCacheStorage.clear() with shutil.rmtree raising at a file it cannot
\* remove, after it has removed the files of S (cache.py:158)
ClearFails(exc) ==
    /\ ~Waiting
    /\ \E S \in SUBSET DOMAIN files :
         /\ S # DOMAIN files
         /\ files' = Remove(files, S)
         /\ workers' = Orphan(workers, S)
         /\ calls' = Disturb(calls, S, {})
    /\ rt' = NoRt
    /\ lastPass' = NoPass
    /\ wiped' = TRUE
    /\ last' = [NoLast EXCEPT !.op = "clear", !.failed = TRUE]
    /\ raised' = Swallow(exc)
    /\ UNCHANGED <<now, config, lastStored>>

\* A day passes.
Tick ==
    /\ now < MaxTime
    /\ now' = now + 1
    /\ rt' = NoRt
    /\ lastPass' = NoPass
    /\ last' = NoLast
    /\ UNCHANGED <<files, config, calls, workers, lastStored, wiped, raised>>

\* ------------------------------------------------------ cache_track_url
\* What _cache_track_url would return from its first check (cache.py:199-202).
CachedPath(fs, key, t) ==
    LET r == retrieve(fs, key, t) IN
    IF r.found /\ "local_path" \in DOMAIN r.entry THEN r.entry["local_path"] ELSE None

Running(ws) == {w \in WorkerIds : ws[w].pc \notin {"idle", "done"}}

Busy(ws, key) == \E w \in Running(ws) : ws[w].key = key

StartWorker(key) == [IdleWorker EXCEPT !.pc = "retrieve", !.key = key]

\* cache.py:250-264: the call starts the retrieval thread and joins it
Call(key) ==
    /\ ~Waiting
    /\ Len(calls) < MaxCalls
    /\ Cardinality(Running(workers)) + 2 <= MaxThreads
    /\ calls' = Append(calls,
          [key |-> key, state |-> "waiting", result |-> None,
           cached |-> CachedPath(files, key, now), quiet |-> ~Busy(workers, key),
           issued |-> now, timedOut |-> FALSE, onDisk |-> FALSE, wiped |-> FALSE,
           fresh |-> FALSE, evicted |-> FALSE,
           after |-> {i \in DOMAIN calls : calls[i].key = key /\ calls[i].fresh}])
    /\ workers' = [workers EXCEPT ![<<Len(calls) + 1, "sync">>] = StartWorker(key)]
    /\ rt' = NoRt
    /\ lastPass' = NoPass
    /\ last' = NoLast
    /\ UNCHANGED <<files, now, config, lastStored, wiped, raised>>

Return(c, result, background, timedOut) ==
    /\ calls' = [calls EXCEPT ![c] =
          [@ EXCEPT !.state = "returned", !.result = result, !.timedOut = timedOut,
                    !.onDisk = result \in DOMAIN files, !.wiped = wiped,
                    !.fresh = TRUE]]
    /\ workers' = IF background
                    THEN [workers EXCEPT ![<<c, "bg">>] = StartWorker(calls[c].key)]
                    ELSE workers
    /\ rt' = NoRt
    /\ lastPass' = NoPass
    /\ UNCHANGED <<files, now, config, lastStored, wiped, last>>

\* cache.py:264-277: the thread finished before join gave up
JoinDone ==
    /\ Waiting
    /\ LET c == Len(calls)
           w == workers[<<c, "sync">>]
       IN  /\ w.pc = "done"
           /\ Return(c, w.result, w.result = None, FALSE)
    /\ UNCHANGED raised

\* cache.py:264-268, 279-284: join timed out, result_queue.get raises
\* queue.Empty, which the call catches
JoinTimeout ==
    /\ Waiting
    /\ LET c == Len(calls) IN
       /\ workers[<<c, "sync">>].pc # "done"
       /\ Return(c, None, TRUE, TRUE)
    /\ raised' = IF ExceptQueueEmpty("Empty") THEN raised ELSE "Empty"

\* ----------------------------------------------------- _cache_track_url
\* A loop that tries once more than max_retries.
MoreAttemptsInclusive(attempt) == attempt <= max_retries

\* cache.py:212: for attempt in range(self.max_retries)
MoreAttempts(attempt) == attempt < max_retries

\* The thread ends; what is kept is what it returned, how many requests it made
\* and whether one of them was answered.
Finish(wk, result) ==
    [IdleWorker EXCEPT !.pc = "done", !.key = wk.key, !.result = result,
                       !.ngets = wk.ngets, !.size = IF wk.size > 0 THEN 1 ELSE 0]

\* cache.py:199-202: the check of the entry store
WRetrieve(w) ==
    /\ workers[w].pc = "retrieve"
    /\ LET wk == workers[w]
           r == retrieve(files, wk.key, now)
           gone == DOMAIN files \ DOMAIN r.files
       IN  /\ files' = r.files
           /\ calls' = Disturb(calls, gone, {})
           /\ workers' = Orphan(
                [workers EXCEPT ![w] =
                    IF r.found /\ "local_path" \in DOMAIN r.entry
                      THEN Finish(wk, r.entry["local_path"])
                    ELSE IF MoreAttempts(0) THEN [wk EXCEPT !.pc = "get"]
                    ELSE Finish(wk, None)], gone)
    /\ rt' = NoRt
    /\ lastPass' = NoPass
    /\ UNCHANGED <<now, config, lastStored, wiped, last, raised>>

\* cache.py:236-240: an attempt raised requests.RequestException
AfterFailure(wk) ==
    IF wk.attempt = max_retries - 1 THEN Finish(wk, None)
    ELSE IF MoreAttempts(wk.attempt + 1) THEN [wk EXCEPT !.attempt = @ + 1]
    ELSE Finish(wk, None)

\* cache.py:214-219: one requests.get; a response is written to the payload file
WGet(w) ==
    /\ workers[w].pc = "get"
    /\ LET wk == [workers[w] EXCEPT !.ngets = @ + 1] IN
       \/ \E n \in ContentSizes :
            /\ files' = WriteAll(files, _track_path(wk.key), Content(n))
            /\ workers' = [workers EXCEPT ![w] = [wk EXCEPT !.pc = "store", !.size = n]]
       \/ /\ workers' = [workers EXCEPT ![w] = AfterFailure(wk)]
          /\ files' = files
    /\ rt' = NoRt
    /\ lastPass' = NoPass
    /\ UNCHANGED <<now, config, calls, lastStored, wiped, last, raised>>

\* cache.py:214-219, 252-257, 290-296: the request is answered and the write
\* of the payload raises; the loop's except clause does not catch it, the
\* thread's does (result_queue.put(None), or the debug log) and the thread ends
WGetFails(w, exc) ==
    /\ workers[w].pc = "get"
    /\ LET wk == [workers[w] EXCEPT !.ngets = @ + 1] IN
       workers' = [workers EXCEPT ![w] =
          IF ExceptRequestException(exc) THEN AfterFailure(wk)
          ELSE [Finish(wk, None) EXCEPT !.size = 1]]
    /\ rt' = NoRt
    /\ lastPass' = NoPass
    /\ UNCHANGED <<files, now, config, calls, lastStored, wiped, last, raised>>

\* Metadata that leaves out where the payload is.
MetadataNoPath(wk) == ("track_id" :> wk.key) @@ ("size_bytes" :> wk.size)

\* cache.py:222-228: the metadata of a download
Metadata(wk) ==
    ("track_id" :> wk.key) @@ ("local_path" :> _track_path(wk.key))
    @@ ("size_bytes" :> wk.size)

\* cache.py:231, 104-110: store's size check and cleanup pass; the value is
\* stamped and the metadata file opened for writing
WStore(w) ==
    /\ workers[w].pc = "store"
    /\ \E order \in ScanOrders(files) :
         LET p == PassFor(files, Metadata(workers[w]), order, now)
             path == _get_cache_path(workers[w].key)
         IN  /\ files' = WriteAll(p.files, path, <<>>)
             /\ calls' = Disturb(calls, SetOf(p.removed), {path})
             /\ workers' = [Orphan(workers, SetOf(p.removed)) EXCEPT ![w] =
                              [@ EXCEPT !.pc = "write", !.fd = "open", !.stamp = now]]
             /\ lastPass' = PassLog(p, files, now)
    /\ rt' = NoRt
    /\ UNCHANGED <<now, config, lastStored, wiped, last, raised>>

\* cache.py:113, 233-234: json.dump, the file is closed, the path is returned
WWrite(w) ==
    /\ workers[w].pc = "write"
    /\ LET wk == workers[w]
           p == _get_cache_path(wk.key)
           data == json_dump(Stamped(Metadata(wk), wk.stamp))
       IN  /\ files' = IF wk.fd = "open"
                         THEN WriteAll(files, p, Overlay(files[p], data))
                         ELSE files
           /\ calls' = Disturb(calls, {}, IF wk.fd = "open" THEN {p} ELSE {})
           /\ workers' = [workers EXCEPT ![w] = Finish(wk, _track_path(wk.key))]
    /\ rt' = NoRt
    /\ lastPass' = NoPass
    /\ UNCHANGED <<now, config, lastStored, wiped, last, raised>>

\* ----------------------------------------------------------------- Next
NextStore ==
    \/ \E k \in Keys, v \in Values : Store(k, v) /\ UNCHANGED ops
    \/ \E k \in Keys : Retrieve(k) /\ UNCHANGED ops
    \/ \E k \in Keys : Delete(k) /\ UNCHANGED ops
    \/ Clear /\ UNCHANGED ops
    \/ Tick /\ UNCHANGED ops

\* The storage layer alone: a single thread using FileCacheStorage.
SpecStore == Init /\ [][NextStore]_vars

\* A download lasts seconds (download_timeout, max_retries): the model lets a
\* day pass only while no thread of the cache is running.
Quiet == ~Waiting /\ Running(workers) = {}

Threads ==
    \/ JoinDone /\ UNCHANGED ops
    \/ JoinTimeout /\ UNCHANGED ops
    \/ \E w \in WorkerIds : WRetrieve(w) /\ UNCHANGED ops
    \/ \E w \in WorkerIds : WGet(w) /\ UNCHANGED ops
    \/ \E w \in WorkerIds : WStore(w) /\ UNCHANGED ops
    \/ \E w \in WorkerIds : WWrite(w) /\ UNCHANGED ops

Next ==
    \/ Quiet /\ Tick /\ UNCHANGED ops
    \/ \E k \in TrackIds : Call(k) /\ UNCHANGED ops
    \/ Threads

\* A caller of TrackUrlCache.cache_track_url.
Spec == Init /\ [][Next]_vars

NextOps ==
    \/ \E k \in Keys, v \in Values :
          ops < MaxOps /\ Store(k, v) /\ ops' = ops + 1
    \/ ops < MaxOps /\ Clear /\ ops' = ops + 1
    \/ Quiet /\ Tick /\ UNCHANGED ops
    \/ \E k \in TrackIds : calls = <<>> /\ Call(k) /\ UNCHANGED ops
    \/ Threads

\* One call of cache_track_url, with stores and clears of the caller before,
\* during and after the work the call starts.
SpecOps == Init /\ [][NextOps]_vars

NextFaults ==
    \/ \E k \in Keys, v \in Values :
          calls = <<>> /\ ops < MaxOps /\ Store(k, v) /\ ops' = ops + 1
    \/ \E k \in Keys, v \in Values, stage \in {"scan", "open", "dump"}, exc \in Faults :
          calls = <<>> /\ ops < MaxOps /\ StoreFails(k, v, stage, exc) /\ ops' = ops + 1
    \/ \E k \in Keys : calls = <<>> /\ ops < MaxOps /\ Retrieve(k) /\ ops' = ops + 1
    \/ \E k \in Keys, exc \in Faults :
          calls = <<>> /\ ops < MaxOps /\ RetrieveFails(k, exc) /\ ops' = ops + 1
    \/ \E k \in Keys : calls = <<>> /\ ops < MaxOps /\ Delete(k) /\ ops' = ops + 1
    \/ \E k \in Keys, exc \in Faults :
          calls = <<>> /\ ops < MaxOps /\ DeleteFails(k, exc) /\ ops' = ops + 1
    \/ calls = <<>> /\ ops < MaxOps /\ Clear /\ ops' = ops + 1
    \/ \E exc \in Faults :
          calls = <<>> /\ ops < MaxOps /\ ClearFails(exc) /\ ops' = ops + 1
    \/ Quiet /\ Tick /\ UNCHANGED ops
    \/ \E k \in TrackIds : calls = <<>> /\ Call(k) /\ UNCHANGED ops
    \/ \E w \in WorkerIds, exc \in Faults : WGetFails(w, exc) /\ UNCHANGED ops
    \/ Threads

\* Up to MaxOps storage operations, each of which may fail at one of its I/O
\* steps, followed by one call of cache_track_url whose threads may fail too.
SpecFaults == Init /\ [][NextFaults]_vars

NextBuild ==
    \/ \E a \in {"FileCacheStorage", None} : Construct(a) /\ UNCHANGED ops
    \/ \E k \in Keys, v \in Values : built /\ Store(k, v) /\ UNCHANGED ops
    \/ \E k \in Keys : built /\ Retrieve(k) /\ UNCHANGED ops
    \/ \E k \in Keys : built /\ Delete(k) /\ UNCHANGED ops
    \/ built /\ Clear /\ UNCHANGED ops
    \/ built /\ Tick /\ UNCHANGED ops

\* The construction of TrackUrlCache, with or without a storage adapter,
\* followed by the use of the cache that was built.
SpecBuild == InitBuild /\ [][NextBuild]_vars

\* ---------------------------------------------------------------- claims
Returned(c) == calls[c].state = "returned"
Sync(c) == workers[<<c, "sync">>]
Bg(c) == workers[<<c, "bg">>]

\* The requests.get calls made by the threads a call started.
Gets(c) == Sync(c).ngets + Bg(c).ngets

\* The call has returned and every thread it started has ended.
Settled(c) == Returned(c) /\ Sync(c).pc = "done" /\ Bg(c).pc \in {"idle", "done"}

\* Every request of the call's first thread was answered.
NoFailure(c) == Sync(c).pc = "done" /\ Sync(c).ngets = Sync(c).size

\* Every thread of the call that made requests had one of them answered.
Answered(c) == \A r \in Roles : workers[<<c, r>>].ngets > 0 => workers[<<c, r>>].size = 1

\* No request of the call's threads was answered.
Unanswered(c) == \A r \in Roles : workers[<<c, r>>].size = 0

C1_Case(c1, c2) ==
    /\ c1 < c2 /\ Returned(c1) /\ Returned(c2)
    /\ calls[c1].key = calls[c2].key
    /\ max_retries >= 1
    /\ calls[c1].cached = None /\ calls[c1].quiet
    /\ ~calls[c1].timedOut /\ ~calls[c2].timedOut
    /\ NoFailure(c1) /\ NoFailure(c2)
    /\ c1 \in calls[c2].after
    /\ calls[c2].issued - calls[c1].issued <= max_age_days

\* C1: when every request is answered and join does not time out, a call for
\* a track that is not cached returns the payload path, and a later call for the
\* same track (its metadata file neither removed nor rewritten since the first
\* call returned, and not expired) returns the same path, the two calls having
\* made one requests.get together.
C1_SecondCallHits ==
    \A c1, c2 \in DOMAIN calls :
        C1_Case(c1, c2) =>
            /\ calls[c1].result = _track_path(calls[c1].key)
            /\ calls[c2].result = calls[c1].result
            /\ Gets(c1) + Gets(c2) = 1

C1_Witness == \E c1, c2 \in DOMAIN calls : C1_Case(c1, c2) /\ Gets(c1) = 1

\* C2: every call that has returned started exactly one run of
\* _cache_track_url (the thread it joined), and no other.
C2_OneFetchPerCall ==
    \A c \in DOMAIN calls : Returned(c) => Bg(c).pc = "idle"

\* C3: once every thread working on the track has ended, a call that returned
\* a miss because join timed out, whose requests were answered, with no removal
\* of the track's metadata file and no day passed since, has left an entry
\* with local_path that retrieve returns.
C3_BackgroundPromotes ==
    \A c \in DOMAIN calls :
        ( /\ Settled(c) /\ calls[c].timedOut
          /\ ~Busy(workers, calls[c].key)
          /\ max_retries >= 1 /\ Answered(c)
          /\ ~calls[c].evicted /\ calls[c].issued = now )
        => CachedPath(files, calls[c].key, now) # None

\* C4: when no request is answered, a call for a track that is not cached
\* returns a miss, and once all the threads it started have ended they have
\* made exactly max_retries requests.
C4_ExactlyMaxRetries ==
    \A c \in DOMAIN calls :
        ( /\ Settled(c) /\ calls[c].cached = None /\ calls[c].quiet
          /\ max_retries >= 1 /\ Unanswered(c) )
        => calls[c].result = None /\ Gets(c) = max_retries

\* C5: with max_retries = 0 no thread ever calls requests.get, and a call for
\* a track that is not cached returns a miss.
C5_NoRetriesNoNetwork ==
    max_retries = 0 =>
        /\ \A w \in WorkerIds : workers[w].ngets = 0
        /\ \A c \in DOMAIN calls :
              Returned(c) /\ calls[c].cached = None => calls[c].result = None

C5_Witness ==
    /\ max_retries = 0
    /\ \E c \in DOMAIN calls :
          Settled(c) /\ calls[c].cached = None /\ Bg(c).pc = "done"

\* C6: a call for a track whose entry is live and holds local_path returns that
\* local_path and makes no requests.get, whatever the timeout of join.
C6_HitShortCircuits ==
    \A c \in DOMAIN calls :
        Returned(c) /\ calls[c].cached # None =>
            calls[c].result = calls[c].cached /\ Gets(c) = 0

\* C7: a retrieve that directly follows store(k, v) returns an entry that holds
\* every field of v with its value, and a stored_at that parses.
C7_StoreRetrieve ==
    rt.stage = "retrieved" =>
        /\ rt.found
        /\ \A f \in DOMAIN rt.value : f \in DOMAIN rt.entry /\ rt.entry[f] = rt.value[f]
        /\ fromisoformat(rt.entry).ok

\* The store ran a cleanup pass and wrote over a record of the same key.
C7_Witness == rt.stage = "retrieved" /\ rt.cleaned /\ rt.replaced

\* C8: when a call returns a path and no delete or clear was issued before, a
\* file exists at that path at the moment of the return.
C8_ReturnedPathExists ==
    \A c \in DOMAIN calls :
        Returned(c) /\ calls[c].result # None /\ ~calls[c].wiped => calls[c].onDisk

PassInfo(p) == FileInfo(lastPass.pre, p, lastPass.at)
PassLive(i) == ~PassInfo(lastPass.removed[i]).is_expired

\* The directory of the pass just before its i-th removal.
PassBefore(i) == Remove(lastPass.pre, {lastPass.removed[j] : j \in 1 .. i - 1})

\* C9: in a cleanup pass every expired or unreadable file is removed, all of
\* them before any live file; live files go in ascending stored_at order, none
\* while an older live file remains, and none once the total is within the limit.
C9_EvictionOrder ==
    lastPass.ran =>
        LET n == Len(lastPass.removed) IN
        /\ \A p \in DOMAIN lastPass.pre :
              PassInfo(p).is_expired => p \in SetOf(lastPass.removed)
        /\ \A i, j \in 1 .. n : i < j => lastPass.removed[i] # lastPass.removed[j]
        /\ \A i, j \in 1 .. n : i < j /\ PassLive(i) => PassLive(j)
        /\ \A i \in 1 .. n :
              PassLive(i) =>
                /\ _get_total_cache_size(PassBefore(i)) > max_total_size_bytes
                /\ \A q \in DOMAIN PassBefore(i) :
                      ~PassInfo(q).is_expired =>
                        PassInfo(q).stored_at >= PassInfo(lastPass.removed[i]).stored_at

\* A pass over expired (or unreadable) and live files that removed a live file
\* and stopped with a newer live file left.
C9_Witness ==
    /\ lastPass.ran
    /\ \E i, j \in 1 .. Len(lastPass.removed) : ~PassLive(i) /\ PassLive(j)
    /\ \E q \in DOMAIN lastPass.pre \ SetOf(lastPass.removed) :
          \E j \in 1 .. Len(lastPass.removed) :
              PassLive(j) /\ PassInfo(q).stored_at > PassInfo(lastPass.removed[j]).stored_at

\* C10: after any sequence of store calls the files of the directory total at
\* most max_total_size_bytes plus the size of the record the last store wrote,
\* hence at most twice max_total_size_bytes when that record is within the limit.
C10_SoftSizeBound ==
    /\ _get_total_cache_size(files) <= max_total_size_bytes + lastStored
    /\ lastStored <= max_total_size_bytes =>
          _get_total_cache_size(files) <= 2 * max_total_size_bytes

\* A store ran a pass that removed files, and the directory is over the limit.
C10_Witness ==
    /\ lastPass.ran /\ lastPass.removed # <<>>
    /\ _get_total_cache_size(files) > max_total_size_bytes

\* The file at p holds a complete record with a stored_at.
Readable(fs, p) ==
    p \in DOMAIN fs /\ json_load(fs[p]).ok /\ fromisoformat(json_load(fs[p]).entry).ok

StoredAt(fs, p) == fromisoformat(json_load(fs[p]).entry).t

ExpiredRecord(fs, p, t) == Readable(fs, p) /\ t - StoredAt(fs, p) > max_age_days
LiveRecord(fs, p, t) == Readable(fs, p) /\ t - StoredAt(fs, p) <= max_age_days

\* C11: a retrieve of an entry older than max_age_days returns absent and
\* removes the metadata file, so that every later retrieve of the key is absent
\* too; a retrieve of a live entry finds it and removes nothing.
C11_LazyExpiry ==
    last.op = "retrieve" =>
        LET p == _get_cache_path(last.key) IN
        /\ ExpiredRecord(last.pre, p, last.at) =>
              /\ ~last.found
              /\ files = Remove(last.pre, {p})
              /\ \A t \in last.at .. MaxTime : ~retrieve(files, last.key, t).found
        /\ LiveRecord(last.pre, p, last.at) => last.found /\ files = last.pre

\* A retrieve of an expired entry, in a directory that also holds a live one.
C11_Witness ==
    /\ last.op = "retrieve"
    /\ ExpiredRecord(last.pre, _get_cache_path(last.key), last.at)
    /\ \E q \in DOMAIN files : LiveRecord(files, q, now)

\* C12: after delete(k) retrieve(k) is absent; when k had no file the directory
\* is unchanged; and retrieve(j) of every other key j returns what it returned
\* before the delete.
C12_DeleteFrame ==
    last.op = "delete" =>
        /\ ~retrieve(files, last.key, now).found
        /\ _get_cache_path(last.key) \notin DOMAIN last.pre => files = last.pre
        /\ \A j \in Keys \ {last.key} :
              /\ retrieve(files, j, now).found = retrieve(last.pre, j, now).found
              /\ retrieve(files, j, now).entry = retrieve(last.pre, j, now).entry

\* A delete of a key that had a live entry, with another key's entry live.
C12_Witness ==
    /\ last.op = "delete"
    /\ retrieve(last.pre, last.key, now).found
    /\ \E j \in Keys \ {last.key} : retrieve(files, j, now).found

\* C13: from the return of clear_cache until the caller's next store or call,
\* the cache directory holds no file (so retrieve is absent for every key),
\* whatever threads earlier calls of cache_track_url left running.
C13_ClearLeavesEmpty ==
    last.op = "clear" =>
        /\ files = EmptyEntry
        /\ \A k \in Keys : ~retrieve(files, k, now).found

\* C14: no exception reaches the caller of store, retrieve, delete, clear or
\* cache_track_url, whichever of their I/O steps raises and whatever is raised
\* inside the threads of a call.
C14_NothingPropagates == raised = None

\* A call returned a miss after the write of an answered download raised inside
\* its thread, with the partial record of a failed store still in the directory.
C14_Witness ==
    /\ raised = None
    /\ \E c \in DOMAIN calls :
          /\ Returned(c) /\ calls[c].result = None
          /\ Sync(c).pc = "done" /\ Sync(c).result = None /\ Sync(c).size = 1
    /\ \E k \in Keys :
          /\ _get_cache_path(k) \in DOMAIN files
          /\ ~json_load(files[_get_cache_path(k)]).ok

\* C15: a store(k, v) that failed leaves k as it was: the file of a record k
\* had is still there with the same content, and a key that had no file has none.
C15_FailedStoreKeepsPrior ==
    last.op = "store" /\ last.failed =>
        LET p == _get_cache_path(last.key) IN
        IF p \in DOMAIN last.pre
          THEN p \in DOMAIN files /\ files[p] = last.pre[p]
          ELSE p \notin DOMAIN files

\* C16: the construction of TrackUrlCache, with or without a storage adapter,
\* never ends in an exception: while no cache has been built, none was raised.
C16_ConstructionSucceeds == ~built => raised # "NameError" /\ raised = None

\* The files that are metadata records' files.
MetadataPaths == {_get_cache_path(k) : k \in Keys}

\* C17: the total that store and the cleanup pass compare against
\* max_total_size_bytes is the sum of the sizes of the metadata files alone, and
\* a cleanup pass removes metadata files only.
C17_MetadataOnlyAccounting ==
    /\ _get_total_cache_size(files) = SumSizes(files, DOMAIN files \cap MetadataPaths)
    /\ lastPass.ran => SetOf(lastPass.removed) \subseteq MetadataPaths

\* A thread is between the open and the close of store for the file p.
Writing(p) ==
    \E w \in WorkerIds :
        workers[w].pc = "write" /\ workers[w].fd = "open" /\ _get_cache_path(workers[w].key) = p

\* C18: once the stores of a key that ran concurrently have all closed the
\* file, the file holds exactly one complete record (what json.dump writes for
\* one dictionary), never a mixture or a text that does not parse.
C18_LastWriterWins ==
    \A p \in DOMAIN files \cap MetadataPaths :
        ~Writing(p) =>
            /\ json_load(files[p]).ok
            /\ json_dump(json_load(files[p]).entry) = files[p]

\* The directory a cleanup pass leaves.
PassAfter == Remove(lastPass.pre, SetOf(lastPass.removed))

\* The files of the pass's directory that are expired or unreadable.
PassStale == {p \in DOMAIN lastPass.pre : ~LiveRecord(lastPass.pre, p, lastPass.at)}

\* C19: a cleanup pass over a directory that is within the limit removes the
\* expired and unreadable files and nothing else, and a second pass run right
\* after any pass (same time, no write), whatever the order in which the
\* directory is listed, removes nothing.
C19_PassIdempotent ==
    lastPass.ran =>
        /\ _get_total_cache_size(lastPass.pre) <= max_total_size_bytes =>
              SetOf(lastPass.removed) = PassStale
        /\ \A order \in ScanOrders(PassAfter) :
              _cleanup_oldest_files(PassAfter, order, lastPass.at).removed = <<>>

\* A pass over a directory within the limit that removed a file and left a
\* live record.
C19_Witness ==
    /\ lastPass.ran
    /\ _get_total_cache_size(lastPass.pre) <= max_total_size_bytes
    /\ lastPass.removed # <<>>
    /\ \E q \in DOMAIN PassAfter : LiveRecord(PassAfter, q, lastPass.at)

\* C20: once every thread fetching a track has ended, an entry that retrieve
\* returns with local_path names a payload file that exists and whose length
\* is the entry's size_bytes.
C20_PayloadMatchesMetadata ==
    \A k \in TrackIds :
        LET r == retrieve(files, k, now) IN
        ( /\ ~Busy(workers, k)
          /\ r.found /\ "local_path" \in DOMAIN r.entry )
        => /\ r.entry["local_path"] \in DOMAIN files
           /\ Len(files[r.entry["local_path"]]) = r.entry["size_bytes"]

====
